---------------------------- MODULE Spec2Model ----------------------------
(***************************************************************************)
(* Model of examples/simple-scene/src/inverse_kinematics.rs: the           *)
(* per-frame handler inverse_kinematics_system (driver resolution, the     *)
(* locomotion / balance decision, and the fixed-iteration Gauss-Seidel     *)
(* constraint solver) acting on the persistent IkState.                    *)
(*                                                                         *)
(* Numbers.  f32 lengths are fixed-point integers, Metre units per metre   *)
(* (one unit is 5 mm).  Quaternion components are fixed-point with QOne    *)
(* for 1.0.  Matrices of Affine3A hold integers: the tracked poses are     *)
(* drawn from quarter turns about the vertical axis and about the line of  *)
(* sight, for which the f32 matrix arithmetic is exact.  A vector or       *)
(* quaternion whose components are NaN is the empty tuple (in this program *)
(* NaN always reaches all components of a vector at once).  A comparison   *)
(* of a length with a threshold is decided as f32 decides it as long as    *)
(* the two are not within rounding of each other: the inputs keep the      *)
(* model off such ties.                                                    *)
(***************************************************************************)
EXTENDS Integers, Sequences, FiniteSets, TLC

Metre == 2 * 100
QOne  == 10 * 100

\* ------------------------------------------------------------------ bounds
MaxTicks == 4               \* calls of the handler
MaxTicksWithoutNodes == 1   \* of them on a world add_ik_nodes has not set up
MaxTicksWithoutStage == 2   \* of them on a world set up without a Stage entity
MaxProjections == 2         \* distance projections run on their own
MaxSubsteps == 2
MaxParticles == 2

\* --------------------------------------------------------- scalar helpers
\* Division rounded to nearest (f32 rounds to nearest); b > 0.
RDiv(a, b) == (2 * a + b) \div (2 * b)

RECURSIVE IsqrtIn(_, _, _)
IsqrtIn(n, lo, hi) ==
    IF lo >= hi THEN lo
    ELSE LET mid == (lo + hi + 1) \div 2
         IN  IF mid * mid <= n THEN IsqrtIn(n, mid, hi) ELSE IsqrtIn(n, lo, mid - 1)

\* floor(sqrt(n)) for 0 <= n < 2^31
Isqrt(n) == IsqrtIn(n, 0, 46340)

\* ------------------------------------------------------------ glam::Vec3A
NaN3 == << >>
IsNaN(v) == v = << >>

ZERO == <<0, 0, 0>>
AxisY == <<0, 1, 0>>

VAdd(a, b) == IF IsNaN(a) \/ IsNaN(b) THEN NaN3
              ELSE <<a[1] + b[1], a[2] + b[2], a[3] + b[3]>>
VSub(a, b) == IF IsNaN(a) \/ IsNaN(b) THEN NaN3
              ELSE <<a[1] - b[1], a[2] - b[2], a[3] - b[3]>>
VNeg(a)    == IF IsNaN(a) THEN NaN3 ELSE <<-a[1], -a[2], -a[3]>>
VScale(a, s) == IF IsNaN(a) THEN NaN3 ELSE <<a[1] * s, a[2] * s, a[3] * s>>
VMul(a, b) == IF IsNaN(a) \/ IsNaN(b) THEN NaN3
              ELSE <<a[1] * b[1], a[2] * b[2], a[3] * b[3]>>
\* dot and cross are used on non-NaN vectors only
dot(a, b) == a[1] * b[1] + a[2] * b[2] + a[3] * b[3]
cross(a, b) == IF IsNaN(a) \/ IsNaN(b) THEN NaN3
               ELSE <<a[2] * b[3] - a[3] * b[2],
                      a[3] * b[1] - a[1] * b[3],
                      a[1] * b[2] - a[2] * b[1]>>
length_squared(a) == dot(a, a)
\* length in hundredths of a unit
length100(a) == Isqrt(100 * 100 * length_squared(a))

\* `v.length() < r` and `v.length() > r`; comparisons with NaN are false.
LengthBelow(v, r) == ~IsNaN(v) /\ length_squared(v) < r * r
LengthAbove(v, r) == ~IsNaN(v) /\ length_squared(v) > r * r

\* v.normalize() * s, rounded to whole units: v * (1 / |v|) is NaN for v = 0.
NormalizeTimes(v, s) ==
    IF IsNaN(v) \/ length_squared(v) = 0 THEN NaN3
    ELSE LET l == length100(v)
         IN  <<RDiv(v[1] * s * 100, l), RDiv(v[2] * s * 100, l), RDiv(v[3] * s * 100, l)>>

\* ---------------------------------------------------- glam::Mat3A, Affine3A
\* A matrix is its three columns <<x_axis, y_axis, z_axis>>.
IDENTITY3 == << <<1, 0, 0>>, <<0, 1, 0>>, <<0, 0, 1>> >>

MatVec(m, v) ==
    IF IsNaN(v) THEN NaN3
    ELSE VAdd(VAdd(VScale(m[1], v[1]), VScale(m[2], v[2])), VScale(m[3], v[3]))
MatMul(a, b) == <<MatVec(a, b[1]), MatVec(a, b[2]), MatVec(a, b[3])>>
determinant(m) == dot(m[3], cross(m[1], m[2]))
transpose(m) == << <<m[1][1], m[2][1], m[3][1]>>,
                   <<m[1][2], m[2][2], m[3][2]>>,
                   <<m[1][3], m[2][3], m[3][3]>> >>
VDivS(v, d) == <<v[1] \div d, v[2] \div d, v[3] \div d>>
\* a matrix with a NaN column
IsNaNMat(m) == IsNaN(m[1]) \/ IsNaN(m[2]) \/ IsNaN(m[3])
NaNMat == <<NaN3, NaN3, NaN3>>
\* Mat3A::inverse: the cross products of the columns over the determinant; a
\* NaN column makes the determinant, and with it every entry, NaN
MatInverse(m) ==
    IF IsNaNMat(m) THEN NaNMat
    ELSE LET tmp0 == cross(m[2], m[3])
             tmp1 == cross(m[3], m[1])
             tmp2 == cross(m[1], m[2])
             det  == dot(m[3], tmp2)
         IN  transpose(<<VDivS(tmp0, det), VDivS(tmp1, det), VDivS(tmp2, det)>>)

Affine(m, t) == [matrix3 |-> m, translation |-> t]
from_translation(t) == Affine(IDENTITY3, t)
\* Affine3A * Affine3A
AMul(a, b) == Affine(MatMul(a.matrix3, b.matrix3),
                     VAdd(MatVec(a.matrix3, b.translation), a.translation))
\* Affine3A::inverse
inverse(a) ==
    LET m == MatInverse(a.matrix3)
    IN  Affine(m, VNeg(MatVec(m, a.translation)))

\* Mat3::from_rotation_y by k quarter turns
RotationY(k) ==
    LET c == CASE k % 4 = 0 -> 1 [] k % 4 = 2 -> -1 [] OTHER -> 0
        s == CASE k % 4 = 1 -> 1 [] k % 4 = 3 -> -1 [] OTHER -> 0
    IN  << <<c, 0, -s>>, <<0, 1, 0>>, <<s, 0, c>> >>

\* Mat3::from_rotation_z by k quarter turns
RotationZ(k) ==
    LET c == CASE k % 4 = 0 -> 1 [] k % 4 = 2 -> -1 [] OTHER -> 0
        s == CASE k % 4 = 1 -> 1 [] k % 4 = 3 -> -1 [] OTHER -> 0
    IN  << <<c, s, 0>>, <<-s, c, 0>>, <<0, 0, 1>> >>

\* ------------------------------------------------------------- glam::Quat
NaNQ == << >>
QIDENTITY == <<0, 0, 0, QOne>>
Qxyz(q) == <<q[1], q[2], q[3]>>

\* Quat::from_rotation_axes on axes of unit length (entries in units of 1):
\* the branch on the largest of x^2, y^2, z^2, w^2, then (value * 0.5/sqrt(4c^2)).
QFromAxes(x_axis, y_axis, z_axis) ==
    LET m00 == x_axis[1]  m01 == x_axis[2]  m02 == x_axis[3]
        m10 == y_axis[1]  m11 == y_axis[2]  m12 == y_axis[3]
        m20 == z_axis[1]  m21 == z_axis[2]  m22 == z_axis[3]
        Comp(v, four_sq) == RDiv(v * QOne * QOne, 2 * Isqrt(four_sq * QOne * QOne))
    IN  IF m22 <= 0
        THEN LET dif10 == m11 - m00
                 omm22 == 1 - m22
             IN  IF dif10 <= 0
                 THEN LET f == omm22 - dif10
                      IN  <<Comp(f, f), Comp(m01 + m10, f), Comp(m02 + m20, f), Comp(m12 - m21, f)>>
                 ELSE LET f == omm22 + dif10
                      IN  <<Comp(m01 + m10, f), Comp(f, f), Comp(m12 + m21, f), Comp(m20 - m02, f)>>
        ELSE LET sum10 == m11 + m00
                 opm22 == 1 + m22
             IN  IF sum10 <= 0
                 THEN LET f == opm22 - sum10
                      IN  <<Comp(m02 + m20, f), Comp(m12 + m21, f), Comp(f, f), Comp(m01 - m10, f)>>
                 ELSE LET f == opm22 + sum10
                      IN  <<Comp(m12 - m21, f), Comp(m20 - m02, f), Comp(m01 - m10, f), Comp(f, f)>>

\* fn to_pos_rot: Affine3A::to_scale_rotation_translation, the scale dropped.
to_pos_rot(transform) ==
    LET m == transform.matrix3
    IN  IF IsNaNMat(m)
        THEN [pos |-> transform.translation, rot |-> NaNQ]
        ELSE LET det == determinant(m)
                 sx  == Isqrt(length_squared(m[1])) * (IF det < 0 THEN -1 ELSE 1)
                 sy  == Isqrt(length_squared(m[2]))
                 sz  == Isqrt(length_squared(m[3]))
             IN  [pos |-> transform.translation,
                  rot |-> QFromAxes(VDivS(m[1], sx), VDivS(m[2], sy), VDivS(m[3], sz))]

\* Quat * Vec3A (rotate v by q): v (w^2 - b.b) + b (2 v.b) + (b x v) (2 w)
QRotate(q, v) ==
    IF q = NaNQ \/ IsNaN(v) THEN NaN3
    ELSE LET w  == q[4]
             b  == Qxyz(q)
             b2 == dot(b, b)
             s  == VAdd(VAdd(VScale(v, w * w - b2), VScale(b, 2 * dot(v, b))),
                        VScale(cross(b, v), 2 * w))
         IN  <<RDiv(s[1], QOne * QOne), RDiv(s[2], QOne * QOne), RDiv(s[3], QOne * QOne)>>

\* Quat::normalize
QNormalize(q) ==
    IF q = NaNQ THEN NaNQ
    ELSE LET n2 == q[1] * q[1] + q[2] * q[2] + q[3] * q[3] + q[4] * q[4]
             l  == Isqrt(n2)
         IN  IF l = 0 THEN NaNQ
             ELSE <<RDiv(q[1] * QOne, l), RDiv(q[2] * QOne, l),
                    RDiv(q[3] * QOne, l), RDiv(q[4] * QOne, l)>>

\* normalize(q + sign * 0.5 * (omega, 0) (x) q), omega in square units
\* (omega, 0) (x) q = (q.w omega + omega x q.xyz, -omega . q.xyz)
QIntegrate(q, omega, sign) ==
    IF q = NaNQ \/ IsNaN(omega) THEN NaNQ
    ELSE LET b  == Qxyz(q)
             pv == VAdd(VScale(omega, q[4]), cross(omega, b))
             pw == -dot(omega, b)
             d  == 2 * Metre * Metre
         IN  QNormalize(<<q[1] + sign * RDiv(pv[1], d), q[2] + sign * RDiv(pv[2], d),
                          q[3] + sign * RDiv(pv[3], d), q[4] + sign * RDiv(pw, d)>>)

\* ------------------------------------------------------------- IkNodeID
IkNodeID ==
    <<"Hmd", "HeadCenter", "NeckRoot", "Torso", "Pelvis", "Base", "BalancePoint",
      "LeftAim", "LeftGrip", "LeftPalm", "LeftWrist", "LeftLowerArm", "LeftUpperArm",
      "LeftUpperLeg", "LeftLowerLeg", "LeftFoot",
      "RightAim", "RightGrip", "RightPalm", "RightWrist", "RightLowerArm",
      "RightUpperArm", "RightUpperLeg", "RightLowerLeg", "RightFoot">>
Nodes == {IkNodeID[i] : i \in 1..Len(IkNodeID)}

\* enum WeightDistribution is "LeftPlanted", "RightPlanted" or "SharedWeight",
\* the Default.

\* Option<Affine3A>
None == << >>
Some(x) == <<x>>

\* -------------------------------------- fixed transforms and parameters
head_center_in_hmd == from_translation(<<0, 0, 20>>)
neck_root_in_head_center == from_translation(<<0, -20, 0>>)
left_wrist_in_palm == from_translation(<<-3, -2, 13>>)
right_wrist_in_palm ==
    from_translation(VMul(left_wrist_in_palm.translation, <<-1, 1, 1>>))
lower_arm_length == 56
upper_arm_length == 56
collarbone_length == 34
sternum_width == 12
hip_width == 52
sternum_height_in_torso == 40
neck_root_height_in_torso == 44
lower_back_height_in_torso == -40
lower_back_height_in_pelvis == 20
hip_height_in_pelvis == -14
upper_leg_length == 80
lower_leg_length == 80
ankle_height == 20
wrist_in_lower_arm == <<0, 0, -(lower_arm_length \div 2)>>
elbow_in_lower_arm == <<0, 0, lower_arm_length \div 2>>
elbow_in_upper_arm == <<0, 0, -(upper_arm_length \div 2)>>
shoulder_in_upper_arm == <<0, 0, upper_arm_length \div 2>>
left_sc_joint_in_torso == <<-(sternum_width \div 2), sternum_height_in_torso, 0>>
right_sc_joint_in_torso == <<sternum_width \div 2, sternum_height_in_torso, 0>>
neck_root_in_torso == <<0, neck_root_height_in_torso, 0>>
lower_back_in_torso == <<0, lower_back_height_in_torso, 0>>
lower_back_in_pelvis == <<0, lower_back_height_in_pelvis, 0>>
left_hip_in_pelvis == <<-(hip_width \div 2), hip_height_in_pelvis, 0>>
right_hip_in_pelvis == <<hip_width \div 2, hip_height_in_pelvis, 0>>
hip_in_upper_leg == <<0, upper_leg_length \div 2, 0>>
knee_in_upper_leg == <<0, -(upper_leg_length \div 2), 0>>
knee_in_lower_leg == <<0, lower_leg_length \div 2, 0>>
ankle_in_lower_leg == <<0, -(lower_leg_length \div 2), 0>>
ankle_in_foot == <<0, ankle_height, 0>>
foot_radius == 20
step_multiplier == 3
step_size == foot_radius * (step_multiplier + 1)
stagger_threshold == foot_radius * 2
\* the lateral offset of the default stance, 0.2 m
default_stance_offset == 40
\* for _ in 0..tweak!(10)
Iterations == 10

SphericalConstraint(a, b, pa, pb) ==
    [node_a |-> a, node_b |-> b, point_in_a |-> pa, point_in_b |-> pb]
DistanceConstraint(a, b, pa, pb, d) ==
    [node_a |-> a, node_b |-> b, point_in_a |-> pa, point_in_b |-> pb, distance |-> d]

spherical_constraints ==
    << SphericalConstraint("LeftPalm", "LeftLowerArm",
                           left_wrist_in_palm.translation, wrist_in_lower_arm),
       SphericalConstraint("RightPalm", "RightLowerArm",
                           right_wrist_in_palm.translation, wrist_in_lower_arm),
       SphericalConstraint("LeftLowerArm", "LeftUpperArm",
                           elbow_in_lower_arm, elbow_in_upper_arm),
       SphericalConstraint("RightLowerArm", "RightUpperArm",
                           elbow_in_lower_arm, elbow_in_upper_arm),
       SphericalConstraint("HeadCenter", "Torso",
                           neck_root_in_head_center.translation, neck_root_in_torso),
       SphericalConstraint("Torso", "Pelvis", lower_back_in_torso, lower_back_in_pelvis),
       SphericalConstraint("Pelvis", "LeftUpperLeg", left_hip_in_pelvis, hip_in_upper_leg),
       SphericalConstraint("Pelvis", "RightUpperLeg", right_hip_in_pelvis, hip_in_upper_leg),
       SphericalConstraint("LeftUpperLeg", "LeftLowerLeg",
                           knee_in_upper_leg, knee_in_lower_leg),
       SphericalConstraint("RightUpperLeg", "RightLowerLeg",
                           knee_in_upper_leg, knee_in_lower_leg),
       SphericalConstraint("LeftLowerLeg", "LeftFoot", ankle_in_lower_leg, ankle_in_foot),
       SphericalConstraint("RightLowerLeg", "RightFoot", ankle_in_lower_leg, ankle_in_foot) >>

distance_constraints ==
    << DistanceConstraint("LeftUpperArm", "Torso",
                          shoulder_in_upper_arm, left_sc_joint_in_torso, collarbone_length),
       DistanceConstraint("RightUpperArm", "Torso",
                          shoulder_in_upper_arm, right_sc_joint_in_torso, collarbone_length) >>

\* ------------------------------------------------------ dynamic transforms
\* ic is engine.input_context: the tracked poses of this frame, in stage space.
hmd_in_stage(ic) == ic.hmd
left_grip_in_stage(ic) == ic.left_grip
left_aim_in_stage(ic) == ic.left_aim
right_grip_in_stage(ic) == ic.right_grip
right_aim_in_stage(ic) == ic.right_aim
head_center_in_stage(ic) == AMul(hmd_in_stage(ic), head_center_in_hmd)
neck_root_in_stage(ic) == AMul(head_center_in_stage(ic), neck_root_in_head_center)

\* the neck root projected to the floor, its axes made horizontal / vertical;
\* a neck root whose x axis is vertical has no horizontal part to normalise
base_in_stage(ic) ==
    LET n == neck_root_in_stage(ic)
        x_dir_in_stage == NormalizeTimes(<<n.matrix3[1][1], 0, n.matrix3[1][3]>>, 1)
    IN  Affine(<<x_dir_in_stage, AxisY, cross(x_dir_in_stage, AxisY)>>,
               <<n.translation[1], 0, n.translation[3]>>)

left_palm_in_stage(ic) ==
    Affine(left_aim_in_stage(ic).matrix3, left_grip_in_stage(ic).translation)
right_palm_in_stage(ic) ==
    Affine(right_aim_in_stage(ic).matrix3, right_grip_in_stage(ic).translation)
left_wrist_in_stage(ic) == AMul(left_palm_in_stage(ic), left_wrist_in_palm)
right_wrist_in_stage(ic) == AMul(right_palm_in_stage(ic), right_wrist_in_palm)

\* state.left_foot_in_stage.unwrap_or_else(default stance)
\* current_left_foot with the base frame itself as the default
current_left_foot_at_base(ic, lf) ==
    IF lf = None THEN base_in_stage(ic) ELSE lf[1]

current_left_foot(ic, lf) ==
    IF lf = None
    THEN AMul(base_in_stage(ic), from_translation(<<-default_stance_offset, 0, 0>>))
    ELSE lf[1]
current_right_foot(ic, rf) ==
    IF rf = None
    THEN AMul(base_in_stage(ic), from_translation(<<default_stance_offset, 0, 0>>))
    ELSE rf[1]

foot_in_base(ic, foot_in_stage) == AMul(inverse(base_in_stage(ic)), foot_in_stage)

\* classify keeping the previous distribution when neither foot is near
classify_keeps_when_far(left_near, right_near, previous) ==
    CASE left_near /\ ~right_near  -> "LeftPlanted"
      [] ~left_near /\ right_near  -> "RightPlanted"
      [] OTHER                     -> previous

\* classify without the arm that keeps the previous distribution
classify_no_hysteresis(left_near, right_near, previous) ==
    CASE left_near /\ ~right_near  -> "LeftPlanted"
      [] ~left_near /\ right_near  -> "RightPlanted"
      [] OTHER                     -> "SharedWeight"

\* classify with the two planted arms exchanged
classify_swapped(left_near, right_near, previous) ==
    CASE left_near /\ right_near   -> previous
      [] left_near /\ ~right_near  -> "RightPlanted"
      [] ~left_near /\ right_near  -> "LeftPlanted"
      [] OTHER                     -> "SharedWeight"

\* the match on (left near, right near)
classify(left_near, right_near, previous) ==
    CASE left_near /\ right_near   -> previous
      [] left_near /\ ~right_near  -> "LeftPlanted"
      [] ~left_near /\ right_near  -> "RightPlanted"
      [] OTHER                     -> "SharedWeight"

\* closest point to the base origin on the segment between the feet
balance_point(a, b) ==
    IF IsNaN(a) \/ IsNaN(b) THEN NaN3            \* t is NaN, clamp keeps NaN
    ELSE LET c == ZERO
             v == VSub(b, a)
             n == dot(VSub(c, a), v)
             d == dot(v, v)
         IN  IF d = 0 THEN NaN3                  \* t = 0 / 0
             ELSE IF n <= 0 THEN a               \* t clamped to 0
             ELSE IF n >= d THEN VAdd(a, v)      \* t clamped to 1
             ELSE <<a[1] + RDiv(v[1] * n, d), a[2] + RDiv(v[2] * n, d),
                    a[3] + RDiv(v[3] * n, d)>>

\* swing_target without the sign: the swing foot lands on the planted side
swing_target_same_side(base, planted_in_base) ==
    AMul(base, from_translation(VScale(planted_in_base.translation, step_multiplier)))

\* base_in_stage * from_translation(-step_multiplier * planted)
swing_target(base, planted_in_base) ==
    AMul(base, from_translation(VScale(planted_in_base.translation, -step_multiplier)))

\* stagger_target with dir pointing away from the base origin
stagger_target_outward(base, loaded_in_base) ==
    AMul(base, from_translation(VAdd(loaded_in_base.translation,
                                     NormalizeTimes(loaded_in_base.translation, step_size))))

\* base_in_stage * from_translation(loaded + dir * step_size), dir = -loaded.normalize()
stagger_target(base, loaded_in_base) ==
    LET dir_times_step == VNeg(NormalizeTimes(loaded_in_base.translation, step_size))
    IN  AMul(base, from_translation(VAdd(loaded_in_base.translation, dir_times_step)))

\* foot_targets lifting the foot nearer to the balance point
foot_targets_lift_loaded(wd, base, left, right, left_in_base, right_in_base, bp) ==
    CASE wd = "RightPlanted" -> <<swing_target(base, right_in_base), right>>
      [] wd = "LeftPlanted"  -> <<left, swing_target(base, left_in_base)>>
      [] OTHER ->
           IF LengthAbove(bp, stagger_threshold)
           THEN LET v1 == VSub(bp, left_in_base.translation)
                    v2 == VSub(bp, right_in_base.translation)
                IN  IF length_squared(v1) > length_squared(v2)
                    THEN <<left, stagger_target(base, left_in_base)>>
                    ELSE <<stagger_target(base, right_in_base), right>>
           ELSE <<left, right>>

\* foot_targets without the stagger threshold
foot_targets_always_stagger(wd, base, left, right, left_in_base, right_in_base, bp) ==
    CASE wd = "RightPlanted" -> <<swing_target(base, right_in_base), right>>
      [] wd = "LeftPlanted"  -> <<left, swing_target(base, left_in_base)>>
      [] OTHER ->
           IF ~IsNaN(bp)
           THEN LET v1 == VSub(bp, left_in_base.translation)
                    v2 == VSub(bp, right_in_base.translation)
                IN  IF length_squared(v1) < length_squared(v2)
                    THEN <<left, stagger_target(base, left_in_base)>>
                    ELSE <<stagger_target(base, right_in_base), right>>
           ELSE <<left, right>>

\* The new (left, right) foot transforms of the match on the distribution.
foot_targets(wd, base, left, right, left_in_base, right_in_base, bp) ==
    CASE wd = "RightPlanted" -> <<swing_target(base, right_in_base), right>>
      [] wd = "LeftPlanted"  -> <<left, swing_target(base, left_in_base)>>
      [] OTHER ->
           IF LengthAbove(bp, stagger_threshold)
           THEN LET v1 == VSub(bp, left_in_base.translation)
                    v2 == VSub(bp, right_in_base.translation)
                IN  IF length_squared(v1) < length_squared(v2)
                    THEN <<left, stagger_target(base, left_in_base)>>
                    ELSE <<stagger_target(base, right_in_base), right>>
           ELSE <<left, right>>

\* foot_seeds taking the newly persisted targets
foot_seeds_from_targets(current, targets) == targets

\* The foot transforms the LeftFoot and RightFoot entries of fixed_nodes are
\* built from: the bindings left_foot_in_stage / right_foot_in_stage.
foot_seeds(current, targets) == current

\* let fixed_nodes: the 15 driven landmarks and their transforms of this tick
fixed_nodes_of(ic, left, right, bp) ==
    << <<"Hmd", to_pos_rot(hmd_in_stage(ic))>>,
       <<"HeadCenter", to_pos_rot(head_center_in_stage(ic))>>,
       <<"NeckRoot", to_pos_rot(neck_root_in_stage(ic))>>,
       <<"Base", to_pos_rot(base_in_stage(ic))>>,
       <<"BalancePoint", to_pos_rot(AMul(base_in_stage(ic), from_translation(bp)))>>,
       <<"LeftGrip", to_pos_rot(left_grip_in_stage(ic))>>,
       <<"LeftAim", to_pos_rot(left_aim_in_stage(ic))>>,
       <<"LeftPalm", to_pos_rot(left_palm_in_stage(ic))>>,
       <<"LeftWrist", to_pos_rot(left_wrist_in_stage(ic))>>,
       <<"RightGrip", to_pos_rot(right_grip_in_stage(ic))>>,
       <<"RightAim", to_pos_rot(right_aim_in_stage(ic))>>,
       <<"RightPalm", to_pos_rot(right_palm_in_stage(ic))>>,
       <<"RightWrist", to_pos_rot(right_wrist_in_stage(ic))>>,
       <<"LeftFoot", to_pos_rot(left)>>,
       <<"RightFoot", to_pos_rot(right)>> >>

\* --------------------------------------------------- constraint projection
\* w = inv_mass + p.cross(n)^T * inv_inertia * p.cross(n), times Metre^2
lever_weight(r) ==
    IF IsNaN(r) THEN NaN3
    ELSE <<Metre * Metre + r[2] * r[2] + r[3] * r[3],
           Metre * Metre + r[3] * r[3] + r[1] * r[1],
           Metre * Metre + r[1] * r[1] + r[2] * r[2]>>

\* correction = -c / (w1 + w2), component by component
spherical_correction(c, w1, w2) ==
    IF IsNaN(c) \/ IsNaN(w1) \/ IsNaN(w2) THEN NaN3
    ELSE <<RDiv(-c[1] * Metre * Metre, w1[1] + w2[1]),
           RDiv(-c[2] * Metre * Metre, w1[2] + w2[2]),
           RDiv(-c[3] * Metre * Metre, w1[3] + w2[3])>>

\* correction = (-c / ((w1 + w2) * v_length)) * v with c = v_length - distance;
\* v_length = 0 divides by zero: (+-inf or NaN) * 0 is NaN in every component.
\* A v of zero units stands for an f32 v of exactly 0.0: the poses this is
\* applied to keep off points that meet on the grid but not in f32
\* (CoincidentExactly below).
distance_correction(v, distance, w1, w2) ==
    IF IsNaN(v) \/ IsNaN(w1) \/ IsNaN(w2) THEN NaN3
    ELSE IF length_squared(v) = 0 THEN NaN3
    ELSE LET v_length == length100(v)
             c        == v_length - 100 * distance
             ratio    == RDiv(c * 1000, v_length)
             G(i)     == RDiv(ratio * Metre * Metre, w1[i] + w2[i])
         IN  <<RDiv(-G(1) * v[1], 1000), RDiv(-G(2) * v[2], 1000), RDiv(-G(3) * v[3], 1000)>>

\* The position and orientation updates shared by both kinds of constraint.
apply_correction(constraint, r1, r2, correction, positions, rotations) ==
    LET node_a == constraint.node_a
        node_b == constraint.node_b
    IN  [positions |-> [positions EXCEPT ![node_a] = VAdd(@, correction),
                                         ![node_b] = VSub(@, correction)],
         rotations |-> [rotations EXCEPT
                          ![node_a] = QIntegrate(@, cross(r1, correction), 1),
                          ![node_b] = QIntegrate(@, cross(r2, correction), -1)]]

\* the body of `for constraint in &spherical_constraints`
project_spherical(constraint, positions, rotations) ==
    LET r1 == QRotate(rotations[constraint.node_a], constraint.point_in_a)
        r2 == QRotate(rotations[constraint.node_b], constraint.point_in_b)
        p1 == VAdd(positions[constraint.node_a], r1)
        p2 == VAdd(positions[constraint.node_b], r2)
        correction == spherical_correction(VSub(p1, p2), lever_weight(r1), lever_weight(r2))
    IN  apply_correction(constraint, r1, r2, correction, positions, rotations)

\* the body of `for constraint in &distance_constraints`
project_distance(constraint, positions, rotations) ==
    LET r1 == QRotate(rotations[constraint.node_a], constraint.point_in_a)
        r2 == QRotate(rotations[constraint.node_b], constraint.point_in_b)
        p1 == VAdd(positions[constraint.node_a], r1)
        p2 == VAdd(positions[constraint.node_b], r2)
        correction == distance_correction(VSub(p1, p2), constraint.distance,
                                          lever_weight(r1), lever_weight(r2))
    IN  apply_correction(constraint, r1, r2, correction, positions, rotations)

\* more_iterations ending the loop one iteration early
one_iteration_short(i) == i < Iterations - 1

\* `for _ in 0..10`: after iteration i (1-based) the loop goes on
more_iterations(i) == i < Iterations

\* spherical_at with the left wrist joint bound to the wrist landmark itself
spherical_at_left_wrist(k) ==
    IF spherical_constraints[k].node_a = "LeftPalm"
    THEN [spherical_constraints[k] EXCEPT !.node_a = "LeftWrist", !.point_in_a = ZERO]
    ELSE spherical_constraints[k]

\* spherical_at walking the array from its end
spherical_in_reverse(k) == spherical_constraints[Len(spherical_constraints) + 1 - k]

\* `for constraint in &spherical_constraints`: the k-th constraint taken
spherical_at(k) == spherical_constraints[k]

\* `for constraint in &distance_constraints`
distance_at(k) == distance_constraints[k]

\* reseed starting every landmark that is not driven from the default pose
reseed_from_default(fixed, i, positions, rotations) ==
    LET Driven(n) == \E j \in i..Len(fixed) : fixed[j][1] = n
        Last(n) == CHOOSE j \in i..Len(fixed) :
                      fixed[j][1] = n /\ \A k \in (j + 1)..Len(fixed) : fixed[k][1] # n
    IN  [positions |-> [n \in Nodes |-> IF Driven(n) THEN fixed[Last(n)][2].pos ELSE ZERO],
         rotations |-> [n \in Nodes |-> IF Driven(n) THEN fixed[Last(n)][2].rot
                                        ELSE QIDENTITY]]

\* `for (node_id, (pos, rot)) in fixed_nodes.iter()`: overwrite the driven landmarks
RECURSIVE reseed(_, _, _, _)
reseed(fixed, i, positions, rotations) ==
    IF i > Len(fixed) THEN [positions |-> positions, rotations |-> rotations]
    ELSE reseed(fixed, i + 1,
                [positions EXCEPT ![fixed[i][1]] = fixed[i][2].pos],
                [rotations EXCEPT ![fixed[i][1]] = fixed[i][2].rot])

\* ------------------------------------------------------------------ inputs
\* The poses the tracking runtime delivers: the headset at standing height
\* over a few floor points, turned by quarter turns about the vertical and
\* upright or rolled a quarter turn onto its side, the hands held low or
\* reaching forward, the left controller's menu button just pressed or not.
\* The floor points are chosen so that, whatever the order of the frames, no
\* foot comes to lie on the foot radius and no balance point on the stagger
\* threshold (ClearOfThresholds below): there the rounding of f32 decides.
HeadHeight == 16 * 20
HandOffset(side, reach) ==
    IF reach THEN <<side * 40, -20, -100>> ELSE <<side * 40, -80, -60>>
Frame(x, z, yaw, roll, reach, menu) ==
    LET upright == Affine(RotationY(yaw), <<x, HeadHeight, z>>)
        lg  == AMul(upright, from_translation(HandOffset(-1, reach)))
        rg  == AMul(upright, from_translation(HandOffset(1, FALSE)))
    IN  [hmd |-> Affine(MatMul(RotationY(yaw), RotationZ(roll)), upright.translation),
         left_grip |-> lg,
         left_aim |-> Affine(RotationY(yaw + (IF reach THEN 1 ELSE 0)), lg.translation),
         right_grip |-> rg, right_aim |-> rg,
         left_menu_button_just_pressed |-> menu]
InputFrames ==
    { Frame(0, 0, 0, 0, FALSE, FALSE), Frame(-29, 0, 0, 0, FALSE, TRUE),
      Frame(38, 0, 0, 0, TRUE, FALSE), Frame(-15, 40, 1, 0, FALSE, FALSE),
      Frame(0, 0, 0, 1, FALSE, FALSE) }

\* ------------------------------------------------------------------- state
VARIABLES
    left_foot_in_stage,    \* IkState.left_foot_in_stage: Option<Affine3A>
    right_foot_in_stage,   \* IkState.right_foot_in_stage
    weight_distribution,   \* IkState.weight_distribution
    node_positions,        \* IkState.node_positions
    node_rotations,        \* IkState.node_rotations
    local_transform,       \* the entities with a LocalTransform and an IkNode
    input_context,         \* engine.input_context
    local,                 \* the handler's local bindings while it runs
    pc,                    \* where the handler is
    iteration,             \* the solver's `for _ in 0..10`, 1-based
    constraint,            \* index of the next constraint of the running loop
    ticks,                 \* calls of the handler so far
    stderr,                \* what the running call has written to stderr
    points_curr,           \* xpbd State.points_curr
    velocities,            \* xpbd State.velocities
    points_next,           \* xpbd_substep's local points_next
    params,                \* the SimulationParams of the running simulation
    xpc,                   \* where xpbd_substep is
    substeps,              \* calls of xpbd_substep so far
    projected,             \* index of the distance constraint projected on its own
    body_positions,        \* the positions the projection on its own reads and writes
    body_rotations,        \* the rotations it reads and writes
    projections            \* projections on their own so far

ik_vars == <<left_foot_in_stage, right_foot_in_stage, weight_distribution, node_positions,
             node_rotations, local_transform, input_context, local, pc, iteration,
             constraint, ticks, stderr>>
projection_vars == <<projected, body_positions, body_rotations, projections>>
xpbd_vars == <<points_curr, velocities, points_next, params, xpc, substeps>>
vars == <<ik_vars, projection_vars, xpbd_vars>>

NoLocals == << >>
NoInput == << >>
NoParams == << >>
Quiet == ""

\* IkState::default(): no feet, SharedWeight, zero positions, identity rotations;
\* the world holds no entity with an IkNode yet.
IkDefault ==
    /\ left_foot_in_stage = None
    /\ right_foot_in_stage = None
    /\ weight_distribution = "SharedWeight"
    /\ node_positions = [n \in Nodes |-> ZERO]
    /\ node_rotations = [n \in Nodes |-> QIDENTITY]
    /\ local_transform = << >>
    /\ input_context = NoInput
    /\ local = NoLocals
    /\ pc = "idle"
    /\ iteration = 0
    /\ constraint = 0
    /\ ticks = 0
    /\ stderr = Quiet

\* No projection is looked at on its own.
NoProjection ==
    /\ projected = 0
    /\ body_positions = << >>
    /\ body_rotations = << >>
    /\ projections = 0

\* No particle simulation is set up.
NoSimulation ==
    /\ points_curr = << >>
    /\ velocities = << >>
    /\ points_next = << >>
    /\ params = NoParams
    /\ xpc = "idle"
    /\ substeps = 0

Init == IkDefault /\ NoProjection /\ NoSimulation

\* The entities add_ik_nodes spawns in a world with `stages` Stage entities,
\* in spawn order: one per node id without a parent, then one per node id
\* under each Stage entity, each with the IkNode of its node id and the
\* LocalTransform its model brings along.
add_ik_nodes(stages) ==
    [e \in 1..(Len(IkNodeID) * (1 + stages)) |->
        [node_id |-> IkNodeID[((e - 1) % Len(IkNodeID)) + 1],
         parent |-> IF e <= Len(IkNodeID) THEN None
                    ELSE Some((e - 1) \div Len(IkNodeID)),
         translation |-> ZERO,
         rotation |-> QIDENTITY]]

\* The scene is set up: add_ik_nodes is called once, before the first frame,
\* on a world with no Stage entity or with one.
StageCounts == {0, 1}
AddIkNodes ==
    /\ pc = "idle"
    /\ ticks = 0
    /\ local_transform = << >>
    /\ \E stages \in StageCounts : local_transform' = add_ik_nodes(stages)
    /\ UNCHANGED <<left_foot_in_stage, right_foot_in_stage, weight_distribution,
                   node_positions, node_rotations, input_context, local, pc, iteration,
                   constraint, ticks, stderr>>
    /\ UNCHANGED <<projection_vars, xpbd_vars>>

\* The engine delivers the frame's tracked poses and calls the handler.
BeginTick ==
    /\ pc = "idle"
    /\ ticks < MaxTicks
    /\ local_transform = << >> => ticks < MaxTicksWithoutNodes
    /\ (local_transform # << >> /\ Len(local_transform) = Len(IkNodeID))
          => ticks < MaxTicksWithoutStage
    /\ input_context' \in InputFrames
    /\ pc' = "locomotion"
    /\ ticks' = ticks + 1
    /\ stderr' = Quiet
    /\ UNCHANGED <<left_foot_in_stage, right_foot_in_stage, weight_distribution,
                   node_positions, node_rotations, local_transform, local, iteration,
                   constraint>>
    /\ UNCHANGED <<projection_vars, xpbd_vars>>

\* Dynamic transforms, weight classification, balance point, foot targets and
\* the driven landmarks' transforms: everything before the solver loop.
Locomotion ==
    /\ pc = "locomotion"
    /\ LET ic    == input_context
           base  == base_in_stage(ic)
           left  == current_left_foot(ic, left_foot_in_stage)
           right == current_right_foot(ic, right_foot_in_stage)
           left_in_base  == foot_in_base(ic, left)
           right_in_base == foot_in_base(ic, right)
           wd == classify(LengthBelow(left_in_base.translation, foot_radius),
                          LengthBelow(right_in_base.translation, foot_radius),
                          weight_distribution)
           bp == balance_point(left_in_base.translation, right_in_base.translation)
           targets == foot_targets(wd, base, left, right, left_in_base, right_in_base, bp)
       IN  /\ weight_distribution' = wd
           /\ left_foot_in_stage' = Some(targets[1])
           /\ right_foot_in_stage' = Some(targets[2])
           /\ local' = [base_in_stage |-> base,
                        left_foot_in_stage |-> left,
                        right_foot_in_stage |-> right,
                        left_foot_in_base |-> left_in_base,
                        right_foot_in_base |-> right_in_base,
                        balance_point_in_base |-> bp,
                        fixed_nodes |->
                            LET seeds == foot_seeds(<<left, right>>, targets)
                            IN  fixed_nodes_of(ic, seeds[1], seeds[2], bp)]
    /\ pc' = "reseed"
    /\ iteration' = 1
    /\ UNCHANGED <<node_positions, node_rotations, local_transform, input_context,
                   constraint, ticks, stderr>>
    /\ UNCHANGED <<projection_vars, xpbd_vars>>

\* Variant: the weight distribution is classified anew from the persisted feet
\* whenever an iteration starts.
Reseed_redecides ==
    /\ pc = "reseed"
    /\ LET r == reseed(local.fixed_nodes, 1, node_positions, node_rotations)
       IN  /\ node_positions' = r.positions
           /\ node_rotations' = r.rotations
    /\ weight_distribution' =
          classify(LengthBelow(foot_in_base(input_context,
                                            left_foot_in_stage[1]).translation, foot_radius),
                   LengthBelow(foot_in_base(input_context,
                                            right_foot_in_stage[1]).translation, foot_radius),
                   weight_distribution)
    /\ pc' = "spherical"
    /\ constraint' = 1
    /\ UNCHANGED <<left_foot_in_stage, right_foot_in_stage,
                   local_transform, input_context, local, iteration, ticks, stderr>>
    /\ UNCHANGED <<projection_vars, xpbd_vars>>

\* The first inner loop of an iteration.
Reseed ==
    /\ pc = "reseed"
    /\ LET r == reseed(local.fixed_nodes, 1, node_positions, node_rotations)
       IN  /\ node_positions' = r.positions
           /\ node_rotations' = r.rotations
    /\ pc' = "spherical"
    /\ constraint' = 1
    /\ UNCHANGED <<left_foot_in_stage, right_foot_in_stage, weight_distribution,
                   local_transform, input_context, local, iteration, ticks, stderr>>
    /\ UNCHANGED <<projection_vars, xpbd_vars>>

\* One pass of the body of the spherical loop.
ProjectSpherical ==
    /\ pc = "spherical"
    /\ LET r == project_spherical(spherical_at(constraint),
                                  node_positions, node_rotations)
       IN  /\ node_positions' = r.positions
           /\ node_rotations' = r.rotations
    /\ IF constraint < Len(spherical_constraints)
       THEN pc' = pc /\ constraint' = constraint + 1
       ELSE pc' = "distance" /\ constraint' = 1
    /\ UNCHANGED <<left_foot_in_stage, right_foot_in_stage, weight_distribution,
                   local_transform, input_context, local, iteration, ticks, stderr>>
    /\ UNCHANGED <<projection_vars, xpbd_vars>>

\* One pass of the body of the distance loop; after the last one the outer
\* loop either starts its next iteration or is over.
ProjectDistance ==
    /\ pc = "distance"
    /\ LET r == project_distance(distance_at(constraint),
                                 node_positions, node_rotations)
       IN  /\ node_positions' = r.positions
           /\ node_rotations' = r.rotations
    /\ IF constraint < Len(distance_constraints)
       THEN pc' = pc /\ constraint' = constraint + 1 /\ iteration' = iteration
       ELSE /\ constraint' = 0
            /\ IF more_iterations(iteration)
               THEN pc' = "reseed" /\ iteration' = iteration + 1
               ELSE pc' = "write_back" /\ iteration' = iteration
    /\ UNCHANGED <<left_foot_in_stage, right_foot_in_stage, weight_distribution,
                   local_transform, input_context, local, ticks, stderr>>
    /\ UNCHANGED <<projection_vars, xpbd_vars>>

\* The query over (&mut LocalTransform, &IkNode): every entity that has both
\* gets the position and the rotation of its node id.
write_back(entities, positions, rotations) ==
    [e \in DOMAIN entities |->
        [entities[e] EXCEPT !.translation = positions[entities[e].node_id],
                            !.rotation = rotations[entities[e].node_id]]]

\* Update entity transforms.
WriteBack ==
    /\ pc = "write_back"
    /\ local_transform' = write_back(local_transform, node_positions, node_rotations)
    /\ pc' = "snapshot"
    /\ local' = NoLocals
    /\ iteration' = 0
    /\ UNCHANGED <<left_foot_in_stage, right_foot_in_stage, weight_distribution,
                   node_positions, node_rotations, input_context, constraint, ticks,
                   stderr>>
    /\ UNCHANGED <<projection_vars, xpbd_vars>>

\* What a failed std::fs::write(..).expect(..) leaves behind: the panic message
\* on stderr and the handler unwound instead of returned.
snapshot_outcome(pressed, write_ok) ==
    IF pressed /\ ~write_ok
    THEN [pc |-> "panicked", stderr |-> "failed to write to file"]
    ELSE [pc |-> "telemetry", stderr |-> Quiet]

\* Store a snapshot of the pose if the menu button was just pressed; the file
\* system accepts the write or refuses it.
Snapshot ==
    /\ pc = "snapshot"
    /\ \E write_ok \in BOOLEAN :
          LET o == snapshot_outcome(input_context.left_menu_button_just_pressed, write_ok)
          IN  pc' = o.pc /\ stderr' = o.stderr
    /\ UNCHANGED <<left_foot_in_stage, right_foot_in_stage, weight_distribution,
                   node_positions, node_rotations, local_transform, input_context,
                   local, iteration, constraint, ticks>>
    /\ UNCHANGED <<projection_vars, xpbd_vars>>

\* What log_fn().unwrap_or_else(..) leaves behind for each session the caller
\* can pass: none, one that takes the poses, one whose send fails.
Sessions == {"None", "Sends", "Fails"}
telemetry_outcome(session) ==
    IF session = "Fails"
    THEN [pc |-> "idle", stderr |-> "Failed to send poses to rerun"]
    ELSE [pc |-> "idle", stderr |-> Quiet]

\* Send the poses to rerun if a session was passed, then return.
Telemetry ==
    /\ pc = "telemetry"
    /\ \E session \in Sessions :
          LET o == telemetry_outcome(session)
          IN  pc' = o.pc /\ stderr' = o.stderr
    /\ UNCHANGED <<left_foot_in_stage, right_foot_in_stage, weight_distribution,
                   node_positions, node_rotations, local_transform, input_context,
                   local, iteration, constraint, ticks>>
    /\ UNCHANGED <<projection_vars, xpbd_vars>>

Next ==
    \/ AddIkNodes
    \/ BeginTick
    \/ Locomotion
    \/ Reseed
    \/ ProjectSpherical
    \/ ProjectDistance
    \/ WriteBack
    \/ Snapshot
    \/ Telemetry

Spec == Init /\ [][Next]_vars

\* ----------------------------------- the distance projection on its own
\* The body of the distance loop as a function of what it reads: the position
\* and the rotation of the constraint's two bodies. Body B, the torso, stands
\* at one of a few points; body A, an upper arm, is upright or turned half
\* round the vertical, its shoulder point on the torso's sternoclavicular
\* joint or some units off it. The shoulder point is put on the joint only with
\* the torso at the stage origin: there position + lever is the same f32 on
\* both sides and p1 - p2 is exactly 0.0, while away from the origin the two
\* sums round apart and leave a residue that f32 divides by.
TorsoPositions == {ZERO, <<10, 200, -5>>, <<-40, 180, 30>>}
ArmRotations == {QIDENTITY, <<0, QOne, 0, 0>>}
ShoulderOffsets ==
    {ZERO, <<2, 0, 0>>, <<5, 0, 0>>, <<0, 0, -3>>, <<0, 30, -10>>, <<0, collarbone_length, 0>>}

\* The pose of the two bodies of constraint c with body B at position torso,
\* body A turned by arm_rotation and its attachment point `off` away from B's.
bodies_of(c, torso, arm_rotation, off) ==
    [positions |->
        [n \in {c.node_a, c.node_b} |->
            IF n = c.node_b THEN torso
            ELSE VAdd(VSub(VAdd(torso, c.point_in_b), QRotate(arm_rotation, c.point_in_a)),
                      off)],
     rotations |->
        [n \in {c.node_a, c.node_b} |-> IF n = c.node_b THEN QIDENTITY ELSE arm_rotation]]

InitProjection ==
    /\ IkDefault
    /\ NoSimulation
    /\ projected \in 1..Len(distance_constraints)
    /\ \E torso \in TorsoPositions, arm_rotation \in ArmRotations, off \in ShoulderOffsets :
          LET bodies == bodies_of(distance_at(projected), torso, arm_rotation, off)
          IN  /\ off = ZERO => torso = ZERO
              /\ body_positions = bodies.positions
              /\ body_rotations = bodies.rotations
    /\ projections = 0

\* One pass of the body of the distance loop over the two bodies.
DistanceProjection ==
    /\ projected > 0
    /\ projections < MaxProjections
    /\ LET r == project_distance(distance_at(projected), body_positions, body_rotations)
       IN  /\ body_positions' = r.positions
           /\ body_rotations' = r.rotations
    /\ projections' = projections + 1
    /\ UNCHANGED projected
    /\ UNCHANGED <<ik_vars, xpbd_vars>>


SpecProjection == InitProjection /\ [][DistanceProjection]_vars

\* ------------------------------------------------------------ xpbd_substep
\* Positions are whole units and velocities whole units per second; dt is one
\* over a whole number of substeps per second (params.rate), so that `x * dt`
\* is a rounded division and `x / dt` a product.
TimesDt(v, rate) == <<RDiv(v[1], rate), RDiv(v[2], rate), RDiv(v[3], rate)>>
OverDt(v, rate) == VScale(v, rate)

\* Iterator::zip: pairs up to the end of the shorter sequence
zip(a, b) ==
    [i \in 1..(IF Len(a) < Len(b) THEN Len(a) ELSE Len(b)) |-> <<a[i], b[i]>>]

\* Apply external forces
apply_external_forces(vels, acc, rate) ==
    [i \in 1..Len(vels) |-> VAdd(vels[i], TimesDt(acc, rate))]

\* Predict new positions
predict_new_positions(curr, vels, rate) ==
    LET z == zip(curr, vels)
    IN  [i \in 1..Len(z) |-> VAdd(z[i][1], TimesDt(z[i][2], rate))]

\* The corrections the shape-matching resolver may apply: in place, to the
\* predicted position of the first particle, within the particle's plane.
ShapeCorrections == {ZERO, <<1, 0, 0>>, <<0, -1, 0>>}
resolve_shape_matching_constraints(points, correction) ==
    [i \in 1..Len(points) |-> IF i = 1 THEN VAdd(points[i], correction) ELSE points[i]]

\* The collision resolver, in place: the scene is a floor at height 0, nothing
\* ends below it.
resolve_ecs_collisions(points) ==
    [i \in 1..Len(points) |->
        IF points[i][2] < 0 THEN <<points[i][1], 0, points[i][3]>> ELSE points[i]]

\* Variant: only the particles that moved get a velocity.
update_velocities_of_moving(next, curr, rate) ==
    LET z == SelectSeq(zip(next, curr), LAMBDA e : e[1] # e[2])
    IN  [i \in 1..Len(z) |-> OverDt(VSub(z[i][1], z[i][2]), rate)]

\* Update velocities
update_velocities(next, curr, rate) ==
    LET z == zip(next, curr)
    IN  [i \in 1..Len(z) |-> OverDt(VSub(z[i][1], z[i][2]), rate)]

\* The damping pass, in place on the velocities: each velocity is pulled the
\* fraction shape_damping * dt towards the motion of the body as a whole (the
\* mean velocity).
mean_velocity(vels) ==
    LET RECURSIVE sum(_)
        sum(i) == IF i = 0 THEN ZERO ELSE VAdd(sum(i - 1), vels[i])
    IN  TimesDt(sum(Len(vels)), Len(vels))
damping_of_shape_matching_constraints(vels, shape_damping, rate) ==
    [i \in 1..Len(vels) |->
        VAdd(vels[i], TimesDt(VScale(VSub(mean_velocity(vels), vels[i]), shape_damping),
                              rate))]

\* The simulations the substep is run on: up to MaxParticles particles, the
\* k-th in the plane z = Lane * k and moving within it, resting on the floor or
\* above it, at rest, falling or sliding; gravity on or off; one or two
\* substeps per second; damping off or on.
Lane == 10
Heights == {0, 2}
StartVelocities == {ZERO, <<0, -2, 0>>, <<2, 0, 0>>}
Accelerations == {ZERO, <<0, -4, 0>>}
Rates == {1, 2}
Dampings == {0, 1}

InitXpbd ==
    /\ IkDefault
    /\ NoProjection
    /\ \E n \in 1..MaxParticles, h \in Heights, v \in StartVelocities :
          /\ points_curr = [k \in 1..n |-> <<2 * k, h, Lane * k>>]
          /\ velocities = [k \in 1..n |-> VScale(v, k)]
    /\ points_next = << >>
    /\ params \in [rate : Rates, acc : Accelerations, shape_damping : Dampings]
    /\ xpc = "idle"
    /\ substeps = 0

ApplyExternalForces ==
    /\ xpc = "idle"
    /\ substeps < MaxSubsteps
    /\ substeps' = substeps + 1
    /\ velocities' = apply_external_forces(velocities, params.acc, params.rate)
    /\ xpc' = "predict"
    /\ UNCHANGED <<points_curr, points_next, params>>
    /\ UNCHANGED <<ik_vars, projection_vars>>

\* Variant: the prediction is written over the current positions as well.
PredictNewPositions_in_place ==
    /\ xpc = "predict"
    /\ points_next' = predict_new_positions(points_curr, velocities, params.rate)
    /\ points_curr' = points_next'
    /\ xpc' = "shape"
    /\ UNCHANGED <<velocities, params, substeps>>
    /\ UNCHANGED <<ik_vars, projection_vars>>

PredictNewPositions ==
    /\ xpc = "predict"
    /\ points_next' = predict_new_positions(points_curr, velocities, params.rate)
    /\ xpc' = "shape"
    /\ UNCHANGED <<points_curr, velocities, params, substeps>>
    /\ UNCHANGED <<ik_vars, projection_vars>>

ResolveShapeMatching ==
    /\ xpc = "shape"
    /\ \E correction \in ShapeCorrections :
          points_next' = resolve_shape_matching_constraints(points_next, correction)
    /\ xpc' = "collisions"
    /\ UNCHANGED <<points_curr, velocities, params, substeps>>
    /\ UNCHANGED <<ik_vars, projection_vars>>

ResolveCollisions ==
    /\ xpc = "collisions"
    /\ points_next' = resolve_ecs_collisions(points_next)
    /\ xpc' = "velocities"
    /\ UNCHANGED <<points_curr, velocities, params, substeps>>
    /\ UNCHANGED <<ik_vars, projection_vars>>

\* Variant: the velocities the forces were integrated into are kept.
UpdateVelocities_keeps_integrated ==
    /\ xpc = "velocities"
    /\ xpc' = "damping"
    /\ UNCHANGED <<velocities, points_curr, points_next, params, substeps>>
    /\ UNCHANGED <<ik_vars, projection_vars>>

UpdateVelocities ==
    /\ xpc = "velocities"
    /\ velocities' = update_velocities(points_next, points_curr, params.rate)
    /\ xpc' = "damping"
    /\ UNCHANGED <<points_curr, points_next, params, substeps>>
    /\ UNCHANGED <<ik_vars, projection_vars>>

Damping ==
    /\ xpc = "damping"
    /\ velocities' = damping_of_shape_matching_constraints(velocities, params.shape_damping,
                                                          params.rate)
    /\ xpc' = "commit"
    /\ UNCHANGED <<points_curr, points_next, params, substeps>>
    /\ UNCHANGED <<ik_vars, projection_vars>>

\* state.points_curr = points_next: the local is moved out of.
Commit ==
    /\ xpc = "commit"
    /\ points_curr' = points_next
    /\ points_next' = << >>
    /\ xpc' = "idle"
    /\ UNCHANGED <<velocities, params, substeps>>
    /\ UNCHANGED <<ik_vars, projection_vars>>

NextXpbd ==
    \/ ApplyExternalForces
    \/ PredictNewPositions
    \/ ResolveShapeMatching
    \/ ResolveCollisions
    \/ UpdateVelocities
    \/ Damping
    \/ Commit

SpecXpbd == InitXpbd /\ [][NextXpbd]_vars

\* ------------------------------------------------------------ properties
\* The handler is past its locomotion step: its locals are bound.
InTick == pc \in {"reseed", "spherical", "distance", "write_back"}

\* The transform fixed_nodes holds for a driven landmark.
Seed(n) ==
    LET i == CHOOSE j \in 1..Len(local.fixed_nodes) : local.fixed_nodes[j][1] = n
    IN  local.fixed_nodes[i][2]
DrivenNodes == {local.fixed_nodes[i][1] : i \in 1..Len(local.fixed_nodes)}

\* The entities that carry the IkNode of landmark n.
EntitiesOf(n) == {e \in DOMAIN local_transform : local_transform[e].node_id = n}
\* Every entity of landmark n has the landmark's pose as its LocalTransform.
ShowsPose(n) ==
    \A e \in EntitiesOf(n) : /\ local_transform[e].translation = node_positions[n]
                             /\ local_transform[e].rotation = node_rotations[n]

LeftNear  == LengthBelow(local.left_foot_in_base.translation, foot_radius)
RightNear == LengthBelow(local.right_foot_in_base.translation, foot_radius)
LeftHeld  == left_foot_in_stage = Some(local.left_foot_in_stage)
RightHeld == right_foot_in_stage = Some(local.right_foot_in_stage)
BalanceFar == LengthAbove(local.balance_point_in_base, stagger_threshold)
Staggering == InTick /\ weight_distribution = "SharedWeight" /\ BalanceFar

\* C1: when the solver loop is over, every driven landmark has in
\* node_positions / node_rotations exactly the transform it was seeded with.
C1_DrivenKeepSeedAtEnd ==
    pc = "write_back" =>
        \A n \in DrivenNodes : /\ node_positions[n] = Seed(n).pos
                               /\ node_rotations[n] = Seed(n).rot

\* The feet as the locomotion step is about to read them (pc = "locomotion").
LeftInBaseNow ==
    foot_in_base(input_context, current_left_foot(input_context, left_foot_in_stage))
RightInBaseNow ==
    foot_in_base(input_context, current_right_foot(input_context, right_foot_in_stage))

\* C2: a locomotion step that finds both feet within foot_radius of the base
\* origin leaves weight_distribution as it was, whatever it was.
C2_Hysteresis ==
    [][ ( /\ pc = "locomotion"
          /\ LengthBelow(LeftInBaseNow.translation, foot_radius)
          /\ LengthBelow(RightInBaseNow.translation, foot_radius) )
        => weight_distribution' = weight_distribution ]_vars

\* both feet near in a tick that kept RightPlanted
C2_Witness ==
    InTick /\ LeftNear /\ RightNear /\ weight_distribution = "RightPlanted"

\* C3: only the left foot near gives LeftPlanted, only the right foot near
\* gives RightPlanted, neither near gives SharedWeight.
C3_Classification ==
    InTick =>
        /\ (LeftNear /\ ~RightNear => weight_distribution = "LeftPlanted")
        /\ (~LeftNear /\ RightNear => weight_distribution = "RightPlanted")
        /\ (~LeftNear /\ ~RightNear => weight_distribution = "SharedWeight")

\* a later tick in which only the left foot is near
C3_Witness ==
    InTick /\ ticks >= 2 /\ LeftNear /\ ~RightNear /\ weight_distribution = "LeftPlanted"

\* squared distance of each foot from the balance point
LeftFromBalance ==
    length_squared(VSub(local.balance_point_in_base, local.left_foot_in_base.translation))
RightFromBalance ==
    length_squared(VSub(local.balance_point_in_base, local.right_foot_in_base.translation))

\* The locomotion step's comparisons are decided the same way in exact and in
\* rounded arithmetic: the feet are at exact positions off the foot radius,
\* apart from each other, the balance point is off the stagger threshold by
\* more than its rounding, and a stagger step normalises an exact direction.
\* Feet that are NaN in the base frame (the base has no horizontal x axis, or
\* the feet were set from such a base) fail every comparison in f32 as here.
NormalizesExactly(v, s) ==
    LET l == Isqrt(length_squared(v))
    IN  /\ l * l = length_squared(v)
        /\ l > 0
        /\ \A i \in 1..3 : (v[i] * s) % l = 0
OffRadius(v, r, margin) ==
    \/ length_squared(v) <= (r - margin) * (r - margin)
    \/ length_squared(v) >= (r + margin) * (r + margin)
Apart(a, b, margin) == a - b >= margin \/ b - a >= margin
ClearOfThresholds ==
    ( /\ InTick
      /\ ~IsNaN(local.left_foot_in_base.translation)
      /\ ~IsNaN(local.right_foot_in_base.translation) ) =>
        /\ length_squared(local.left_foot_in_base.translation) # foot_radius * foot_radius
        /\ length_squared(local.right_foot_in_base.translation) # foot_radius * foot_radius
        /\ ~IsNaN(local.balance_point_in_base)
        /\ weight_distribution = "SharedWeight" =>
              /\ OffRadius(local.balance_point_in_base, stagger_threshold, 1)
              /\ BalanceFar =>
                    /\ Apart(Isqrt(LeftFromBalance), Isqrt(RightFromBalance), 2)
                    /\ ~LeftHeld =>
                          NormalizesExactly(local.left_foot_in_base.translation, step_size)
                    /\ ~RightHeld =>
                          NormalizesExactly(local.right_foot_in_base.translation, step_size)

\* C4: in a stagger tick exactly one persisted foot target differs from the
\* foot's current transform, and it is the foot farther from the balance point.
C4_StaggerMovesOneFoot ==
    Staggering =>
        /\ LeftHeld # RightHeld
        /\ (LeftFromBalance > RightFromBalance => ~LeftHeld /\ RightHeld)
        /\ (RightFromBalance > LeftFromBalance => ~RightHeld /\ LeftHeld)

\* a stagger tick in which the right foot is the farther one and moves
C4_Witness ==
    Staggering /\ RightFromBalance > LeftFromBalance /\ ~RightHeld /\ LeftHeld

\* p displaced by step_size along p's direction away from (sign = 1) or
\* towards (sign = -1) the base origin, in stage space through the base frame
Displaced(p, sign) ==
    AMul(local.base_in_stage,
         from_translation(VAdd(p, VScale(NormalizeTimes(p, step_size), sign))))

\* C5 as stated: the moved foot's new target is its own base-relative position
\* displaced by step_size away from the base origin.
C5_OwnPositionAway ==
    Staggering =>
        /\ (~LeftHeld => left_foot_in_stage =
                Some(Displaced(local.left_foot_in_base.translation, 1)))
        /\ (~RightHeld => right_foot_in_stage =
                Some(Displaced(local.right_foot_in_base.translation, 1)))

\* C5 amended: the moved foot's new target is the other (holding) foot's
\* base-relative position displaced by step_size towards the base origin.
C5_OtherPositionTowards ==
    Staggering =>
        /\ (~LeftHeld => left_foot_in_stage =
                Some(Displaced(local.right_foot_in_base.translation, -1)))
        /\ (~RightHeld => right_foot_in_stage =
                Some(Displaced(local.left_foot_in_base.translation, -1)))

\* a stagger tick that moved the left foot
C5_Witness == Staggering /\ ~LeftHeld /\ RightHeld

\* -step_multiplier times a base-relative position, in stage space
Mirrored(p) ==
    AMul(local.base_in_stage,
         from_translation(<<-step_multiplier * p[1], -step_multiplier * p[2],
                            -step_multiplier * p[3]>>))

\* C6: in a planted tick the planted foot keeps its current transform and the
\* swing foot's target is the base frame composed with -step_multiplier times
\* the planted foot's base-relative position.
C6_PlantedStep ==
    /\ (InTick /\ weight_distribution = "LeftPlanted") =>
          /\ LeftHeld
          /\ right_foot_in_stage = Some(Mirrored(local.left_foot_in_base.translation))
    /\ (InTick /\ weight_distribution = "RightPlanted") =>
          /\ RightHeld
          /\ left_foot_in_stage = Some(Mirrored(local.right_foot_in_base.translation))

\* a LeftPlanted tick whose planted foot is off the base origin: the swing
\* foot's target is on the other side of it
C6_Witness ==
    /\ InTick /\ weight_distribution = "LeftPlanted"
    /\ local.left_foot_in_base.translation # ZERO
    /\ ~RightHeld

\* C7: SharedWeight with the balance point within stagger_threshold of the
\* base origin: both persisted targets are the feet's current transforms.
C7_StableDoubleStance ==
    ( /\ InTick
      /\ weight_distribution = "SharedWeight"
      /\ ~IsNaN(local.balance_point_in_base)
      /\ length_squared(local.balance_point_in_base)
            <= stagger_threshold * stagger_threshold )
    => LeftHeld /\ RightHeld

\* a double stance with the balance point off the origin but within threshold
C7_Witness ==
    /\ InTick /\ weight_distribution = "SharedWeight"
    /\ ~IsNaN(local.balance_point_in_base)
    /\ local.balance_point_in_base # ZERO
    /\ ~BalanceFar
    /\ LeftHeld /\ RightHeld

\* C8 as stated: the LeftFoot and RightFoot seeds are the foot transforms the
\* locomotion step of the same tick persisted into the state.
C8_SeedIsPersistedFoot ==
    InTick => /\ Seed("LeftFoot") = to_pos_rot(left_foot_in_stage[1])
              /\ Seed("RightFoot") = to_pos_rot(right_foot_in_stage[1])

\* C8 amended: the seeds are the feet's transforms as read at the start of the
\* tick (the state's value before the target update, or the default stance).
C8_SeedIsCurrentFoot ==
    [][ pc = "locomotion" =>
          LET fixed == local'.fixed_nodes
              At(n) == fixed[CHOOSE j \in 1..Len(fixed) : fixed[j][1] = n][2]
          IN  /\ At("LeftFoot") =
                   to_pos_rot(current_left_foot(input_context, left_foot_in_stage))
              /\ At("RightFoot") =
                   to_pos_rot(current_right_foot(input_context, right_foot_in_stage)) ]_vars

\* a tick that persisted a new left foot target and seeds the old transform
C8_Witness ==
    /\ InTick /\ ~LeftHeld
    /\ Seed("LeftFoot") = to_pos_rot(local.left_foot_in_stage)
    /\ Seed("LeftFoot") # to_pos_rot(left_foot_in_stage[1])

\* The solver's positions in program order: iteration, loop, index in the loop.
SolverPc == {"reseed", "spherical", "distance"}
LastOfIteration ==
    pc = "distance" /\ constraint = Len(distance_constraints)

\* C9: the solver is left only after the last projection of iteration
\* Iterations; every iteration before it is followed by the next, starting
\* with its re-seed; no projection of an iteration is skipped.
C9_FixedIterationCount ==
    [][ /\ (pc = "locomotion" => pc' = "reseed" /\ iteration' = 1)
        /\ (pc \in SolverPc /\ pc' \notin SolverPc)
              => (LastOfIteration /\ iteration = Iterations /\ pc' = "write_back")
        /\ (pc \in SolverPc /\ LastOfIteration /\ iteration < Iterations)
              => (pc' = "reseed" /\ iteration' = iteration + 1)
        /\ (pc \in SolverPc /\ ~LastOfIteration)
              => (pc' \in SolverPc /\ pc' # "reseed" /\ iteration' = iteration)
        /\ (pc = "spherical" /\ constraint < Len(spherical_constraints))
              => (pc' = "spherical" /\ constraint' = constraint + 1)
        /\ (pc = "distance" /\ constraint < Len(distance_constraints))
              => (pc' = "distance" /\ constraint' = constraint + 1)
      ]_vars

\* the solver loop is over in a tick after the first
C9_Witness == pc = "write_back" /\ iteration = Iterations /\ ticks > 1

\* C10: an iteration re-seeds all driven landmarks, then projects the
\* spherical constraints in declaration order, then the distance constraints
\* in declaration order; each step works on the pose as the step before left it.
C10_OrderAndGaussSeidel ==
    [][ /\ pc = "reseed" =>
              /\ \A n \in DrivenNodes : /\ node_positions'[n] = Seed(n).pos
                                        /\ node_rotations'[n] = Seed(n).rot
              /\ \A n \in Nodes \ DrivenNodes : /\ node_positions'[n] = node_positions[n]
                                                /\ node_rotations'[n] = node_rotations[n]
              /\ pc' = "spherical" /\ constraint' = 1
        /\ pc = "spherical" =>
              LET r == project_spherical(spherical_constraints[constraint],
                                         node_positions, node_rotations)
              IN  /\ node_positions' = r.positions
                  /\ node_rotations' = r.rotations
                  /\ IF constraint < Len(spherical_constraints)
                     THEN pc' = "spherical" /\ constraint' = constraint + 1
                     ELSE pc' = "distance" /\ constraint' = 1
        /\ pc = "distance" =>
              LET r == project_distance(distance_constraints[constraint],
                                        node_positions, node_rotations)
              IN  /\ node_positions' = r.positions
                  /\ node_rotations' = r.rotations
                  /\ constraint < Len(distance_constraints)
                        => (pc' = "distance" /\ constraint' = constraint + 1)
      ]_vars

\* the left elbow is about to be projected in a pose in which the left wrist
\* projection of the same iteration has moved the lower arm off the pose the
\* previous tick ended with
C10_Witness ==
    /\ pc = "spherical" /\ constraint = 3 /\ ticks > 1
    /\ EntitiesOf("LeftLowerArm") # {}
    /\ ~ShowsPose("LeftLowerArm")

\* C11: the locomotion decision is taken once per tick, by the one step that
\* follows the handler's entry and precedes the first solver iteration; no step
\* of the solver loop, and no step after it, changes weight_distribution,
\* left_foot_in_stage or right_foot_in_stage.
C11_DecisionOncePerTick ==
    [][ /\ (pc' = "locomotion" => pc = "idle")
        /\ (pc = "locomotion" => pc' = "reseed" /\ iteration' = 1)
        /\ (pc' = "reseed" /\ iteration' = 1) => pc = "locomotion"
        /\ pc # "locomotion" =>
              UNCHANGED <<weight_distribution, left_foot_in_stage, right_foot_in_stage>>
      ]_vars

\* the last iteration of a tick in which the decision changed the weight
\* distribution and moved a foot
C11_Witness ==
    /\ pc = "distance" /\ iteration = Iterations /\ ticks > 1
    /\ weight_distribution # "SharedWeight"
    /\ ~(LeftHeld /\ RightHeld)

\* C12: a call of xpbd_substep integrates the acceleration into the
\* velocities, predicts the next positions, runs the shape-matching resolver
\* and then the collision resolver on the prediction, recomputes the
\* velocities, runs the damping pass and commits the prediction, each once and
\* in this order; points_curr keeps the positions the call started with until
\* the commit.
C12_SevenStepsInOrder ==
    [][ /\ xpc = "idle" =>
              /\ xpc' = "predict"
              /\ velocities' = apply_external_forces(velocities, params.acc, params.rate)
        /\ xpc = "predict" =>
              /\ xpc' = "shape"
              /\ points_next' = predict_new_positions(points_curr, velocities, params.rate)
        /\ xpc = "shape" =>
              /\ xpc' = "collisions"
              /\ \E correction \in ShapeCorrections :
                    points_next' = resolve_shape_matching_constraints(points_next, correction)
        /\ xpc = "collisions" =>
              /\ xpc' = "velocities"
              /\ points_next' = resolve_ecs_collisions(points_next)
        /\ xpc = "velocities" =>
              /\ xpc' = "damping"
              /\ velocities' = update_velocities(points_next, points_curr, params.rate)
        /\ xpc = "damping" =>
              /\ xpc' = "commit"
              /\ velocities' = damping_of_shape_matching_constraints(
                                   velocities, params.shape_damping, params.rate)
        /\ xpc = "commit" => (xpc' = "idle" /\ points_curr' = points_next)
        /\ xpc # "commit" => points_curr' = points_curr
        /\ xpc \notin {"idle", "velocities", "damping"} => velocities' = velocities
      ]_vars

\* the second call is about to commit a prediction that differs from the
\* positions it started with
C12_Witness == xpc = "commit" /\ substeps > 1 /\ points_next # points_curr

\* C13: between calls of xpbd_substep, points_curr and velocities have the
\* same length and entry i of both is particle i: the position lies in the
\* particle's plane and the velocity has no component out of it.
C13_SameLengthAndAlignment ==
    xpc = "idle" =>
        /\ Len(points_curr) = Len(velocities)
        /\ \A i \in 1..Len(points_curr) :
              points_curr[i][3] = Lane * i /\ velocities[i][3] = 0

\* two calls have run on two particles that now move differently
C13_Witness ==
    /\ xpc = "idle" /\ substeps > 1 /\ Len(points_curr) > 1
    /\ velocities[1] # velocities[2]

\* C14: once the velocities are recomputed, and still at the end of the call
\* when damping is off, every velocity is the displacement from the position at
\* the start of the call to the position the resolvers left, divided by dt.
C14_VelocityReconciliation ==
    (xpc = "damping" \/ (xpc = "commit" /\ params.shape_damping = 0)) =>
        /\ Len(velocities) = Len(points_next)
        /\ \A i \in 1..Len(velocities) :
              velocities[i] = OverDt(VSub(points_next[i], points_curr[i]), params.rate)

\* under gravity a particle resting on the floor was predicted below it and
\* put back by the collision resolver: the call ends with it at rest, not with
\* the falling velocity the acceleration was integrated into
C14_Witness ==
    /\ xpc = "commit" /\ params.shape_damping = 0 /\ params.acc # ZERO
    /\ points_curr[1][2] = 0 /\ points_next[1][2] = 0
    /\ velocities[1][2] = 0

\* C15: whatever the snapshot write and the telemetry send do, the handler is
\* not aborted: it never ends in a panic, and when it has returned the entity
\* transforms hold the pose the solver computed and both feet are decided.
C15_AuxiliaryFailureDoesNotAbort ==
    /\ pc # "panicked"
    /\ (pc = "idle" /\ ticks > 0) =>
          /\ \A n \in Nodes : ShowsPose(n)
          /\ left_foot_in_stage # None /\ right_foot_in_stage # None

\* The attachment points of the distance constraint projected on its own.
AttachmentA ==
    VAdd(body_positions[distance_at(projected).node_a],
         QRotate(body_rotations[distance_at(projected).node_a],
                 distance_at(projected).point_in_a))
AttachmentB ==
    VAdd(body_positions[distance_at(projected).node_b],
         QRotate(body_rotations[distance_at(projected).node_b],
                 distance_at(projected).point_in_b))

\* Attachment points that coincide do so where the f32 sums are exact: with
\* body B at the stage origin and unturned.
CoincidentExactly ==
    (projected > 0 /\ ~IsNaN(AttachmentA) /\ AttachmentA = AttachmentB) =>
        /\ body_positions[distance_at(projected).node_b] = ZERO
        /\ body_rotations[distance_at(projected).node_b] = QIDENTITY

\* C16: a distance projection that finds its two attachment points on the
\* same spot writes no NaN into the position or the rotation of either body.
C16_CoincidentPointsWriteNoNaN ==
    [][ (projected > 0 /\ ~IsNaN(AttachmentA) /\ AttachmentA = AttachmentB) =>
            \A n \in DOMAIN body_positions :
                ~IsNaN(body_positions'[n]) /\ body_rotations'[n] # NaNQ
      ]_vars

\* The landmarks some constraint names as one of its bodies.
ConstrainedBodies ==
    {spherical_constraints[k].node_a : k \in 1..Len(spherical_constraints)}
    \cup {spherical_constraints[k].node_b : k \in 1..Len(spherical_constraints)}
    \cup {distance_constraints[k].node_a : k \in 1..Len(distance_constraints)}
    \cup {distance_constraints[k].node_b : k \in 1..Len(distance_constraints)}

\* |q|^2 is within 0.4 % of one: what rounding four components can cost.
UnitNorm(q) ==
    /\ q # NaNQ
    /\ LET n2 == q[1] * q[1] + q[2] * q[2] + q[3] * q[3] + q[4] * q[4]
       IN  n2 >= QOne * QOne - 4 * QOne /\ n2 <= QOne * QOne + 4 * QOne

\* C17: when a tick is over every landmark's orientation has unit norm.
C17_UnitOrientationsAfterTick ==
    (pc = "idle" /\ ticks > 0) => \A n \in Nodes : UnitNorm(node_rotations[n])

\* The base frame of the frame delivered last has its axes: the neck root's
\* x axis has a horizontal part.
BaseHasAxes == ~IsNaNMat(base_in_stage(input_context).matrix3)
\* The persisted feet were not set as the default stance of a base without axes.
FeetAreNumbers ==
    /\ left_foot_in_stage # None /\ ~IsNaN(left_foot_in_stage[1].translation)
    /\ right_foot_in_stage # None /\ ~IsNaN(right_foot_in_stage[1].translation)

\* Where the orientations do end with unit norm: after a tick whose base frame
\* has its axes, the feet being numbers. After a tick whose base frame has no
\* axes, Base and BalancePoint are left without a norm, and with them every
\* body of a constraint if that tick set the feet.
UnitOrientationsWithBaseAxes ==
    (pc = "idle" /\ ticks > 0 /\ BaseHasAxes /\ FeetAreNumbers) =>
        \A n \in Nodes : UnitNorm(node_rotations[n])
OrientationsLostWithoutBaseAxes ==
    (pc = "idle" /\ ticks > 0 /\ ~BaseHasAxes) =>
        /\ node_rotations["Base"] = NaNQ
        /\ node_rotations["BalancePoint"] = NaNQ
        /\ ~FeetAreNumbers => \A n \in ConstrainedBodies : node_rotations[n] = NaNQ

\* The constraint a projection step is about to project.
ProjectedConstraint ==
    IF pc = "spherical" THEN spherical_at(constraint) ELSE distance_at(constraint)

\* C18: a projection moves its body A by a correction and its body B by the
\* opposite of it, so that the sum of their positions stays what it was; the
\* position and the orientation of every other landmark stay what they were.
\* This is said of the projections of a running tick and of a distance
\* projection on its own.
C18_SymmetricCorrection ==
    [][ /\ (pc \in {"spherical", "distance"}) =>
              (LET a == ProjectedConstraint.node_a
                   b == ProjectedConstraint.node_b
               IN  /\ VAdd(node_positions'[a], node_positions'[b])
                         = VAdd(node_positions[a], node_positions[b])
                   /\ VSub(node_positions'[a], node_positions[a])
                         = VSub(node_positions[b], node_positions'[b])
                   /\ \A n \in Nodes \ {a, b} : (node_positions'[n] = node_positions[n]
                                                 /\ node_rotations'[n] = node_rotations[n]))
        /\ (projected > 0) =>
              (LET a == distance_at(projected).node_a
                   b == distance_at(projected).node_b
               IN  /\ VAdd(body_positions'[a], body_positions'[b])
                         = VAdd(body_positions[a], body_positions[b])
                   /\ VSub(body_positions'[a], body_positions[a])
                         = VSub(body_positions[b], body_positions'[b]))
      ]_vars

\* The landmarks no entry of fixed_nodes drives.
NonDriven ==
    {"Torso", "Pelvis", "LeftLowerArm", "RightLowerArm", "LeftUpperArm", "RightUpperArm",
     "LeftUpperLeg", "RightUpperLeg", "LeftLowerLeg", "RightLowerLeg"}

\* C19: the landmarks that are not driven are these ten, and up to the first
\* projection of a tick, its first re-seed done, each of them has the position
\* and the orientation the tick before left it with (the ones its write-back
\* gave to the landmark's entities; the default pose in the first tick).
C19_WarmStart ==
    /\ InTick => Nodes \ DrivenNodes = NonDriven
    /\ (pc = "locomotion" \/ (iteration = 1 /\ (pc = "reseed" \/
                                                (pc = "spherical" /\ constraint = 1)))) =>
          \A n \in NonDriven :
              IF ticks = 1
              THEN node_positions[n] = ZERO /\ node_rotations[n] = QIDENTITY
              ELSE ShowsPose(n)

\* the first projection of a later tick finds a torso that is off the default pose
C19_Witness ==
    /\ pc = "spherical" /\ constraint = 1 /\ iteration = 1 /\ ticks > 1
    /\ EntitiesOf("Torso") # {}
    /\ node_positions["Torso"] # ZERO
    /\ node_rotations["Torso"] # QIDENTITY

\* C20: a foot transform is absent only until the locomotion step of the first
\* tick has run, and from then on both are present; the first tick reads the
\* feet as the base frame moved 0.2 m along x, to the negative side for the
\* left foot and to the positive side for the right one.
C20_FeetPresentAfterFirstTick ==
    /\ (ticks = 0 \/ (ticks = 1 /\ pc = "locomotion")) =>
          (left_foot_in_stage = None /\ right_foot_in_stage = None)
    /\ ~(ticks = 0 \/ (ticks = 1 /\ pc = "locomotion")) =>
          (left_foot_in_stage # None /\ right_foot_in_stage # None)
    /\ (InTick /\ ticks = 1) =>
          /\ local.left_foot_in_stage =
                AMul(local.base_in_stage, from_translation(<<-(Metre \div 5), 0, 0>>))
          /\ local.right_foot_in_stage =
                AMul(local.base_in_stage, from_translation(<<Metre \div 5, 0, 0>>))

\* the first tick has returned with the base turned a quarter turn, so that
\* the default stance lies along the stage's z axis
C20_Witness ==
    /\ pc = "idle" /\ ticks = 1
    /\ left_foot_in_stage # None /\ right_foot_in_stage # None
    /\ ~IsNaN(left_foot_in_stage[1].translation)
    /\ ~IsNaN(right_foot_in_stage[1].translation)
    /\ left_foot_in_stage[1].translation[3] # right_foot_in_stage[1].translation[3]

\* C21: once a tick has classified, a weight distribution of LeftPlanted means
\* that the classification found the left foot within foot_radius of the base
\* origin, and RightPlanted that it found the right foot there.
C21_PlantedFootWasNear ==
    InTick => /\ weight_distribution = "LeftPlanted" => LeftNear
              /\ weight_distribution = "RightPlanted" => RightNear

\* a later tick ends its solver loop planted on the right foot, the left one
\* outside the radius
C21_Witness ==
    /\ pc = "write_back" /\ ticks > 1
    /\ weight_distribution = "RightPlanted" /\ RightNear /\ ~LeftNear

\* The driven landmarks that are a body of no constraint.
DrivenOnly ==
    {"Hmd", "NeckRoot", "Base", "BalancePoint", "LeftGrip", "LeftAim", "LeftWrist",
     "RightGrip", "RightAim", "RightWrist"}

\* C22: the driven landmarks no constraint names are these ten, and from the
\* first re-seed of a tick to the write-back each of them has the position and
\* the orientation fixed_nodes holds for it.
C22_DrivenOnlyKeepSeed ==
    InTick =>
        /\ DrivenNodes \ ConstrainedBodies = DrivenOnly
        /\ (pc # "reseed" \/ iteration > 1) =>
              \A n \in DrivenOnly : /\ node_positions[n] = Seed(n).pos
                                    /\ node_rotations[n] = Seed(n).rot

\* a later tick is about to write back a left wrist that sits on its seed while
\* the left palm, a body of the wrist joint, has been moved off its own
C22_Witness ==
    /\ pc = "write_back" /\ ticks > 1
    /\ node_positions["LeftWrist"] = Seed("LeftWrist").pos
    /\ EntitiesOf("LeftWrist") # {}
    /\ ~ShowsPose("LeftWrist")
    /\ node_positions["LeftPalm"] # Seed("LeftPalm").pos

=============================================================================
